---- MODULE Spec2Model ----
(***************************************************************************)
(* Model of src/main.py: a FastAPI application that supervises one worker  *)
(* process (fluctuation.py) through the module-level slot watch_process.   *)
(*                                                                         *)
(* The application runs on one asyncio event loop.  Every handler is an    *)
(* `async def` without a single `await`, so a handler occupies the loop    *)
(* from its first line to its return; the blocking wait(timeout=5) of      *)
(* restart_watch and lifespan is therefore a state in which the loop is    *)
(* busy.  Concurrent with the loop are: the operating system (the worker   *)
(* processes, signal delivery), the two daemon threads started by          *)
(* lifespan (output_reader), and the clients whose requests arrive.        *)
(* The worker also writes the data file static/changes.csv, which the two  *)
(* data endpoints read on every request.                                   *)
(***************************************************************************)
EXTENDS Integers, Sequences, FiniteSets, TLC

\* ------------------------------------------------------------------ bounds
MaxWorkers == 3      \* processes the model lets Popen create
MaxRequests == 2     \* HTTP requests the clients send
PipeCap == 1         \* lines an OS pipe holds before a write blocks
PipeWorkers == 2     \* processes created in PipeSpec, where the workers write
MaxLines == 2        \* lines a worker writes to its output streams
MaxRows == 2         \* data rows of a table the worker writes to the data file

\* --------------------------------------------------------------- constants
GracePeriod == 5     \* wait(timeout=5)
SIGTERM == 15
SIGKILL == 9
HTTP_OK == 200
HTTP_NOT_FOUND == 404
HTTP_ERROR == 500

Workers == 1..MaxWorkers
Requests == 1..MaxRequests
Streams == {"stdout", "stderr"}
Kinds == {"status", "restart", "dashboard"}
OwnExitCodes == {0, 1}
DataKinds == {"csv", "json"}

\* Python's None, and a present value, for slots that hold one or nothing.
None == << >>
Some(x) == << x >>
Val(o) == o[1]

VARIABLES
    pc,             \* what the event loop is executing
    cur,            \* the request whose handler occupies the loop (0: none)
    clock,          \* seconds elapsed inside the current wait(timeout=5)
    watch_process,  \* the module-level slot: None or Some(worker)
    nspawned,       \* processes created so far; the next pid
    proc,           \* OS state of each process: none | running | zombie | reaped
    exitcode,       \* OS exit status of a process that has exited
    returncode,     \* Popen.returncode of each Popen object: None or Some(code)
    sigterm,        \* a SIGTERM sent to the (living) process is pending or ignored
    sigkill,        \* a SIGKILL sent to the (living) process is pending
    relay,          \* output_reader thread per process and stream:
                    \* none | reading | done | crashed
    buf,            \* lines held in the pipe of each process and stream
    written,        \* lines each process has written to each stream so far
    sent,           \* what the thread of each process and stream has printed
    writing,        \* the stream a process has an incomplete write on, or "none"
    req,            \* the requests: kind, state and, once answered, the response
    nreq,           \* requests sent so far
    lastRestarted,  \* pid in the latest {status: restarted} response (0: none yet)
    lastRestart,    \* how the latest restart_watch call ended: none | restarted | error
    lastStatus,     \* the latest get_watch_status call: its response, and what held
    startupError,   \* lifespan's startup raised
    file,           \* static/changes.csv: None (absent) or Some(its content)
    lastData        \* the latest answer of a data endpoint, and the file it came from

dataVars == << file, lastData >>
logVars == << written, sent >>

vars == << pc, cur, clock, watch_process, nspawned, proc, exitcode, returncode,
           sigterm, sigkill, relay, buf, writing, req, nreq, lastRestarted,
           lastRestart,
           lastStatus, startupError, dataVars, logVars >>

osVars == << proc, exitcode, sigterm, sigkill >>
pipeVars == << relay, buf, writing, logVars >>
reqVars == << req, nreq, lastRestarted, lastRestart, lastStatus >>

NoReq == [kind |-> "none", st |-> "none"]

Init ==
    /\ pc = "startup"
    /\ cur = 0
    /\ clock = 0
    /\ watch_process = None
    /\ nspawned = 0
    /\ proc = [w \in Workers |-> "none"]
    /\ exitcode = [w \in Workers |-> 0]
    /\ returncode = [w \in Workers |-> None]
    /\ sigterm = [w \in Workers |-> FALSE]
    /\ sigkill = [w \in Workers |-> FALSE]
    /\ relay = [w \in Workers |-> [s \in Streams |-> "none"]]
    /\ buf = [w \in Workers |-> [s \in Streams |-> << >>]]
    /\ written = [w \in Workers |-> [s \in Streams |-> 0]]
    /\ sent = [w \in Workers |-> [s \in Streams |-> << >>]]
    /\ writing = [w \in Workers |-> "none"]
    /\ req = [i \in Requests |-> NoReq]
    /\ nreq = 0
    /\ lastRestarted = 0
    /\ lastRestart = "none"
    /\ lastStatus = None
    /\ startupError = FALSE
    /\ file = None
    /\ lastData = None

\* ------------------------------------------------------- subprocess.Popen
\* The slot's Popen object (restart_watch and lifespan test `if watch_process:`;
\* a Popen object is always truthy, so the test is `is not None`).
HasHandle == watch_process # None
Handle == Val(watch_process)

Alive(w) == proc[w] = "running"
Exited(w) == proc[w] \in {"zombie", "reaped"}

\* Popen.poll(): the cached returncode, else a non-blocking waitpid that reaps
\* the process if it has exited.  The value poll() returns:
Poll(w) ==
    IF returncode[w] # None THEN returncode[w]
    ELSE IF proc[w] = "zombie" THEN Some(exitcode[w])
    ELSE None

\* The state poll() leaves: returncode is cached and the zombie is reaped.
PollEffect(w) ==
    /\ returncode' = [returncode EXCEPT ![w] = Poll(w)]
    /\ proc' = [proc EXCEPT ![w] = IF proc[w] = "zombie" THEN "reaped" ELSE @]

\* Popen.terminate(): send_signal(SIGTERM), which polls first and signals only
\* a process that has not exited.
Terminate(w) ==
    /\ PollEffect(w)
    /\ sigterm' = [sigterm EXCEPT ![w] = @ \/ Poll(w) = None]

\* Popen.kill(): send_signal(SIGKILL), likewise.  kill() returns as soon as
\* the signal is queued; the process dies when the OS delivers it.
Kill(w) ==
    /\ PollEffect(w)
    /\ sigkill' = [sigkill EXCEPT ![w] = @ \/ Poll(w) = None]

\* subprocess.Popen([sys.executable, "fluctuation.py"], stdout=PIPE,
\* stderr=PIPE, ...) succeeding: a new process, w, with two empty pipes.
\* It changes proc and returncode; the caller states the other variables.
PopenOk(w) ==
    /\ nspawned < MaxWorkers
    /\ w = nspawned + 1
    /\ nspawned' = w
    /\ proc' = [proc EXCEPT ![w] = "running"]
    /\ returncode' = [returncode EXCEPT ![w] = None]

\* ---------------------------------------------------------------- lifespan
\* Start-up half of lifespan, Popen succeeding: the worker is spawned, recorded
\* in the slot, and one output_reader thread is started per stream; then yield.
LifespanStartup ==
    /\ pc = "startup"
    /\ \E w \in Workers :
        /\ PopenOk(w)
        /\ watch_process' = Some(w)
        /\ relay' = [relay EXCEPT ![w] = [s \in Streams |-> "reading"]]
    /\ pc' = "idle"
    /\ UNCHANGED << cur, clock, exitcode, sigterm, sigkill, buf, writing,
                    reqVars, startupError, dataVars, logVars >>

\* Start-up half of lifespan, Popen raising: there is no except clause, so the
\* finally block runs (watch_process is None: nothing to stop) and the
\* exception leaves lifespan.  The ASGI server reports the failed start-up and
\* exits without serving.
LifespanStartupFail ==
    /\ pc = "startup"
    /\ startupError' = TRUE
    /\ pc' = "exited"
    /\ UNCHANGED << cur, clock, watch_process, nspawned, osVars, returncode,
                    pipeVars, reqVars, dataVars >>

\* Shutdown half of lifespan (the finally block) up to wait(timeout=5).
LifespanShutdown ==
    /\ pc = "idle"
    /\ IF HasHandle
       THEN /\ Terminate(Handle)
            /\ pc' = "shutdown_wait"
       ELSE /\ pc' = "exited"
            /\ UNCHANGED << proc, returncode, sigterm >>
    /\ clock' = 0
    /\ UNCHANGED << cur, watch_process, nspawned, exitcode, sigkill, pipeVars,
                    reqVars, startupError, dataVars >>

\* wait(timeout=5) returning: the process has exited (and is reaped by wait).
WaitReturns(w) ==
    /\ Exited(w)
    /\ PollEffect(w)
    /\ UNCHANGED << sigterm, sigkill >>

\* wait() without a timeout: it never raises TimeoutExpired.
WaitWithoutTimeout(w) ==
    /\ FALSE
    /\ Kill(w)
    /\ UNCHANGED sigterm

\* wait(timeout=5) raising TimeoutExpired after 5 seconds with the process
\* still there; the except clause calls kill() and goes on, without a wait.
WaitTimesOut(w) ==
    /\ clock = GracePeriod
    /\ Alive(w)
    /\ Kill(w)
    /\ UNCHANGED sigterm

\* A second passes while the loop sits in wait(timeout=5).
WaitTick ==
    /\ pc \in {"restart_wait", "shutdown_wait"}
    /\ Alive(Handle)
    /\ clock < GracePeriod
    /\ clock' = clock + 1
    /\ UNCHANGED << pc, cur, watch_process, nspawned, osVars, returncode,
                    pipeVars, reqVars, startupError, dataVars >>

\* lifespan: "Fluctuation watch stopped gracefully", and the parent exits.
ShutdownGraceful ==
    /\ pc = "shutdown_wait"
    /\ WaitReturns(Handle)
    /\ pc' = "exited"
    /\ clock' = 0
    /\ UNCHANGED << cur, watch_process, nspawned, exitcode, pipeVars, reqVars,
                    startupError, dataVars >>

\* lifespan: "Fluctuation watch was force stopped", and the parent exits.
ShutdownForced ==
    /\ pc = "shutdown_wait"
    /\ WaitTimesOut(Handle)
    /\ pc' = "exited"
    /\ clock' = 0
    /\ UNCHANGED << cur, watch_process, nspawned, exitcode, pipeVars, reqVars,
                    startupError, dataVars >>

\* ------------------------------------------------------------- the clients
\* A client sends a request while the server is up.  It is accepted by the
\* OS and waits until the event loop is free to run its handler.
Arrive(k) ==
    /\ pc \in {"idle", "restart_wait", "restart_spawn"}
    /\ nreq < MaxRequests
    /\ nreq' = nreq + 1
    /\ req' = [req EXCEPT ![nreq + 1] = [kind |-> k, st |-> "pending"]]
    /\ UNCHANGED << pc, cur, clock, watch_process, nspawned, osVars, returncode,
                    pipeVars, lastRestarted, lastRestart, lastStatus, startupError, dataVars >>

\* The event loop is free and request i, of kind k, waits for its handler.
CanHandle(i, k) ==
    /\ pc = "idle"
    /\ req[i].st = "pending"
    /\ req[i].kind = k

\* ------------------------------------------------------- get_watch_status
\* The response of get_watch_status.
StatusResponseNoPoll ==
    IF watch_process = None
    THEN [status |-> "not_running"]
    ELSE IF returncode[Handle] = None
         THEN [status |-> "running", pid |-> Handle]
         ELSE [status |-> "stopped", return_code |-> Val(returncode[Handle])]
StatusResponse ==
    IF watch_process = None
    THEN [status |-> "not_running"]
    ELSE IF Poll(Handle) = None
         THEN [status |-> "running", pid |-> Handle]
         ELSE [status |-> "stopped", return_code |-> Val(Poll(Handle))]

\* GET /api/watch/status.  lastStatus keeps, beside the response, what held
\* when the handler ran: the slot, whether the OS process in it was alive,
\* whether a SIGKILL sent to it had not ended it, the pid of the latest
\* {status: restarted} response and how the latest restart_watch call ended.
GetWatchStatus(i) ==
    /\ CanHandle(i, "status")
    /\ IF HasHandle
       THEN PollEffect(Handle)
       ELSE UNCHANGED << proc, returncode >>
    /\ req' = [req EXCEPT ![i].st = "done"]
    /\ lastStatus' = Some([resp |-> StatusResponse,
                           slot |-> watch_process,
                           alive |-> HasHandle /\ Alive(Handle),
                           killed |-> HasHandle /\ sigkill[Handle],
                           after |-> lastRestarted,
                           restart |-> lastRestart])
    /\ UNCHANGED << pc, cur, clock, watch_process, nspawned, exitcode, sigterm,
                    sigkill, pipeVars, nreq, lastRestarted, lastRestart, startupError, dataVars >>

\* ------------------------------------------------ get_changes_by_concept
\* GET /changes_by_concept: the static dashboard page.
GetChangesByConcept(i) ==
    /\ CanHandle(i, "dashboard")
    /\ req' = [req EXCEPT ![i].st = "done"]
    /\ UNCHANGED << pc, cur, clock, watch_process, nspawned, osVars, returncode,
                    pipeVars, nreq, lastRestarted, lastRestart, lastStatus, startupError, dataVars >>

\* ------------------------------------------------------------ restart_watch
\* POST /api/watch/restart up to wait(timeout=5).
RestartBegin(i) ==
    /\ CanHandle(i, "restart")
    /\ cur' = i
    /\ req' = [req EXCEPT ![i].st = "running"]
    /\ IF HasHandle
       THEN /\ Terminate(Handle)
            /\ pc' = "restart_wait"
       ELSE /\ pc' = "restart_spawn"
            /\ UNCHANGED << proc, returncode, sigterm >>
    /\ clock' = 0
    /\ UNCHANGED << watch_process, nspawned, exitcode, sigkill, pipeVars, nreq,
                    lastRestarted, lastRestart, lastStatus, startupError, dataVars >>

\* wait(timeout=5) returned: on to "Start new process".
RestartGraceful ==
    /\ pc = "restart_wait"
    /\ WaitReturns(Handle)
    /\ pc' = "restart_spawn"
    /\ clock' = 0
    /\ UNCHANGED << cur, watch_process, nspawned, exitcode, pipeVars, reqVars,
                    startupError, dataVars >>

\* wait(timeout=5) timed out: kill(), and on to "Start new process".
RestartForced ==
    /\ pc = "restart_wait"
    /\ WaitTimesOut(Handle)
    /\ pc' = "restart_spawn"
    /\ clock' = 0
    /\ UNCHANGED << cur, watch_process, nspawned, exitcode, pipeVars, reqVars,
                    startupError, dataVars >>

\* ------------------------------------------------------ static/changes.csv
\* The content of the data file: a sequence of lines, each a sequence of
\* comma-separated fields, the first line the header.  An empty field is "".
Columns == << "concept", "value" >>
Numerals == {"5"}
DataRows == {<< "A", "5" >>, << "B", "" >>, << "", "5" >>}
\* A data line with one field more than the header.
LongRow == << "A", "5", "5" >>
\* Zero bytes: the file as a rewrite leaves it between opening it for writing
\* and writing the header.
EmptyFile == << >>

\* The worker opens the file for writing: the file is created or truncated.
FileTruncate(w) ==
    /\ Alive(w)
    /\ file # Some(EmptyFile)
    /\ file' = Some(EmptyFile)
    /\ UNCHANGED << pc, cur, clock, watch_process, nspawned, osVars, returncode,
                    pipeVars, reqVars, startupError, lastData >>

\* The worker writes the next line of the file: the header first, then data
\* lines, one of which may be too long.
FileAppend(w, l) ==
    /\ Alive(w)
    /\ file # None
    /\ IF Val(file) = EmptyFile
       THEN l = Columns
       ELSE /\ Len(Val(file)) - 1 < MaxRows
            /\ Len(Val(file)[Len(Val(file))]) = Len(Columns)
            /\ l \in DataRows \/ (l = LongRow /\ Len(Val(file)) > 1)
    /\ file' = Some(Append(Val(file), l))
    /\ UNCHANGED << pc, cur, clock, watch_process, nspawned, osVars, returncode,
                    pipeVars, reqVars, startupError, lastData >>

\* The worker removes the file.
FileRemove(w) ==
    /\ Alive(w)
    /\ file # None
    /\ file' = None
    /\ UNCHANGED << pc, cur, clock, watch_process, nspawned, osVars, returncode,
                    pipeVars, reqVars, startupError, lastData >>

\* os.path.exists(csv_path)
Exists == file # None

\* ------------------------------------------------------------- pd.read_csv
\* read_csv raises EmptyDataError on a file without a header line and
\* ParserError on a data line, after the first, with more fields than the
\* header.
ParseFails(t) ==
    \/ t = EmptyFile
    \/ \E r \in 3..Len(t) : Len(t[r]) > Len(t[1])
\* A file that is a table: a header and data lines of as many fields.
IsTable(t) == t # EmptyFile /\ \A r \in 1..Len(t) : Len(t[r]) = Len(t[1])
NRows(t) == Len(t) - 1
\* Field j of data row r; a data line with fewer fields is padded.
Field(t, r, j) == IF j <= Len(t[r + 1]) THEN t[r + 1][j] ELSE ""
\* The empty field is one of read_csv's default NA values.
IsNA(c) == c = ""
\* The dtype read_csv infers for column j: int64 when every field is an
\* integer, float64 when the fields that are not NA are numbers and some field
\* is NA (NaN needs a float column), object (Python strings, NaN) otherwise.
DType(t, j) ==
    IF \A r \in 1..NRows(t) : IsNA(Field(t, r, j)) \/ Field(t, r, j) \in Numerals
    THEN IF \E r \in 1..NRows(t) : IsNA(Field(t, r, j)) THEN "float64" ELSE "int64"
    ELSE "object"
\* A value of the DataFrame: its Python type and its text.  An int64 5 and a
\* float64 5.0 are different values with the same text here.
ReadCell(t, r, j) ==
    IF IsNA(Field(t, r, j)) THEN [t |-> "nan", v |-> ""]
    ELSE CASE DType(t, j) = "int64" -> [t |-> "int", v |-> Field(t, r, j)]
           [] DType(t, j) = "float64" -> [t |-> "float", v |-> Field(t, r, j)]
           [] OTHER -> [t |-> "str", v |-> Field(t, r, j)]
\* df.where(pd.notnull(df), None): a NaN of an object column becomes None.  In
\* a float64 column it depends on the pandas installed: pandas before 1.3
\* casts the column to object and stores None, later versions keep the column
\* float64, where None is NaN again.
WhereNotNull(t, r, j, upcast) ==
    IF ReadCell(t, r, j).t = "nan" /\ (DType(t, j) = "object" \/ upcast)
    THEN [t |-> "null", v |-> ""]
    ELSE ReadCell(t, r, j)
\* .to_dict(orient="records"): one record per row, one key per column.
ToDict(t, upcast) ==
    [r \in 1..NRows(t) |->
        [j \in 1..Len(t[1]) |->
            [key |-> t[1][j],
             t |-> WhereNotNull(t, r, j, upcast).t,
             v |-> WhereNotNull(t, r, j, upcast).v]]]
\* JSONResponse(content=data) renders with json.dumps(allow_nan=False), which
\* raises ValueError on a NaN.
RenderFails(data) ==
    \E r \in 1..Len(data) : \E j \in 1..Len(data[r]) : data[r][j].t = "nan"

\* ------------------------------------------------ the data endpoints' answers
\* What a data endpoint answered, the file as it was when it read it, and
\* whether the answer before it was a 404 of the CSV endpoint.
DataResponse(k, c, b, d) ==
    Some([kind |-> k, code |-> c, bytes |-> b, records |-> d, src |-> file,
          afterNotFound |-> /\ lastData # None
                            /\ Val(lastData).kind = "csv"
                            /\ Val(lastData).code = HTTP_NOT_FOUND])
Answered(i) == req' = [req EXCEPT ![i].st = "done"]

\* The bytes FileResponse streams, from a copy kept by an earlier request.
FileBytesCached ==
    IF lastData # None /\ Val(lastData).kind = "csv" /\ Val(lastData).code = HTTP_OK
    THEN Val(lastData).bytes
    ELSE Val(file)
\* The bytes FileResponse streams: it opens csv_path and reads it.
FileBytes == Val(file)

\* --------------------------------------------------------- get_changes_csv
\* GET /api/changes/csv, the handler: 404 when the file does not exist, else a
\* FileResponse object for the path is returned.
GetChangesCsv(i) ==
    /\ CanHandle(i, "csv")
    /\ IF Exists
       THEN /\ req' = [req EXCEPT ![i].st = "sending"]
            /\ UNCHANGED lastData
       ELSE /\ Answered(i)
            /\ lastData' = DataResponse("csv", HTTP_NOT_FOUND, << >>, << >>)
    /\ UNCHANGED << pc, cur, clock, watch_process, nspawned, osVars, returncode,
                    pipeVars, nreq, lastRestarted, lastRestart, lastStatus,
                    startupError, file >>

\* The FileResponse is sent: it calls os.stat on the path, which raises when
\* the file is not there (the server answers 500), and then streams the file.
FileResponseSend(i) ==
    /\ pc = "idle"
    /\ req[i].st = "sending"
    /\ IF Exists
       THEN /\ Answered(i)
            /\ lastData' = DataResponse("csv", HTTP_OK, FileBytes, << >>)
       ELSE /\ Answered(i)
            /\ lastData' = DataResponse("csv", HTTP_ERROR, << >>, << >>)
    /\ UNCHANGED << pc, cur, clock, watch_process, nspawned, osVars, returncode,
                    pipeVars, nreq, lastRestarted, lastRestart, lastStatus,
                    startupError, file >>

\* -------------------------------------------------------- get_changes_json
\* GET /api/changes/json up to the try block: 404 when the file does not exist.
GetChangesJson(i) ==
    /\ CanHandle(i, "json")
    /\ IF Exists
       THEN /\ req' = [req EXCEPT ![i].st = "running"]
            /\ pc' = "json_read"
            /\ cur' = i
            /\ UNCHANGED lastData
       ELSE /\ Answered(i)
            /\ lastData' = DataResponse("json", HTTP_NOT_FOUND, << >>, << >>)
            /\ UNCHANGED << pc, cur >>
    /\ UNCHANGED << clock, watch_process, nspawned, osVars, returncode,
                    pipeVars, nreq, lastRestarted, lastRestart, lastStatus,
                    startupError, file >>

\* The try block: read_csv, where, to_dict, JSONResponse.  Whatever is raised
\* (the file gone, a parse error, the ValueError of the rendering) is caught
\* and answered 500.
GetChangesJsonRead ==
    /\ pc = "json_read"
    /\ \E upcast \in BOOLEAN :
        IF Exists /\ ~ParseFails(Val(file)) /\ ~RenderFails(ToDict(Val(file), upcast))
        THEN /\ Answered(cur)
             /\ lastData' = DataResponse("json", HTTP_OK, << >>, ToDict(Val(file), upcast))
        ELSE /\ Answered(cur)
             /\ lastData' = DataResponse("json", HTTP_ERROR, << >>, << >>)
    /\ pc' = "idle"
    /\ cur' = 0
    /\ UNCHANGED << clock, watch_process, nspawned, osVars, returncode,
                    pipeVars, nreq, lastRestarted, lastRestart, lastStatus,
                    startupError, file >>

\* The slot after restart_watch's `watch_process = subprocess.Popen(...)`.
InstallLocal(w) == watch_process
Install(w) == Some(w)

\* "Start new process", Popen succeeding: the new Popen object replaces the old
\* one in the slot (no output_reader thread is started here), and the response
\* carries the slot's pid.
RestartSpawn ==
    /\ pc = "restart_spawn"
    /\ \E w \in Workers :
        /\ PopenOk(w)
        /\ watch_process' = Install(w)
        /\ req' = [req EXCEPT ![cur] =
                     [kind |-> "restart", st |-> "done",
                      resp |-> [status |-> "restarted", pid |-> Val(watch_process')]]]
        /\ lastRestarted' = Val(watch_process')
    /\ lastRestart' = "restarted"
    /\ pc' = "idle"
    /\ cur' = 0
    /\ UNCHANGED << clock, exitcode, sigterm, sigkill, pipeVars, nreq,
                    lastStatus, startupError, dataVars >>

\* A handler that clears the slot when Popen raises.
RestartSpawnFailClears ==
    /\ pc = "restart_spawn"
    /\ req' = [req EXCEPT ![cur] =
                 [kind |-> "restart", st |-> "done", resp |-> [status |-> "error"]]]
    /\ lastRestart' = "error"
    /\ watch_process' = None
    /\ pc' = "idle"
    /\ cur' = 0
    /\ UNCHANGED << clock, nspawned, osVars, returncode, pipeVars,
                    nreq, lastRestarted, lastStatus, startupError, dataVars >>

\* "Start new process", Popen raising: the exception leaves the handler, the
\* framework answers 500, and the slot keeps the old Popen object.
RestartSpawnFail ==
    /\ pc = "restart_spawn"
    /\ req' = [req EXCEPT ![cur] =
                 [kind |-> "restart", st |-> "done", resp |-> [status |-> "error"]]]
    /\ lastRestart' = "error"
    /\ pc' = "idle"
    /\ cur' = 0
    /\ UNCHANGED << clock, watch_process, nspawned, osVars, returncode, pipeVars,
                    nreq, lastRestarted, lastStatus, startupError, dataVars >>

\* ------------------------------------------------------ the worker processes
\* The process ends: it becomes a zombie until its parent reaps it, and the
\* signals sent to it are gone with it.
Dies(w, c) ==
    /\ proc' = [proc EXCEPT ![w] = "zombie"]
    /\ exitcode' = [exitcode EXCEPT ![w] = c]
    /\ sigterm' = [sigterm EXCEPT ![w] = FALSE]
    /\ sigkill' = [sigkill EXCEPT ![w] = FALSE]
    /\ writing' = [writing EXCEPT ![w] = "none"]

\* A supervisor that replaces a worker the moment it ends by itself.
WorkerExitRespawn(w, c) ==
    /\ Alive(w)
    /\ writing[w] = "none"
    /\ nspawned < MaxWorkers
    /\ Dies(w, c)
    /\ nspawned' = nspawned + 1
    /\ watch_process' = Some(nspawned + 1)
    /\ UNCHANGED << pc, cur, clock, returncode, relay, buf, reqVars,
                    startupError, dataVars, logVars >>

\* The worker ends by itself (it is not inside a blocked write).
WorkerExit(w, c) ==
    /\ Alive(w)
    /\ writing[w] = "none"
    /\ Dies(w, c)
    /\ UNCHANGED << pc, cur, clock, watch_process, nspawned, returncode, relay,
                    buf, reqVars, startupError, dataVars, logVars >>

\* The worker ends by a signal sent to it: by SIGTERM when it gets around to
\* it (it may never), by SIGKILL when the OS delivers it.  Popen reports a
\* death by signal n as return code -n.
WorkerDiesBySignal(w, sig) ==
    /\ Alive(w)
    /\ \/ sig = SIGTERM /\ sigterm[w]
       \/ sig = SIGKILL /\ sigkill[w]
    /\ Dies(w, 0 - sig)
    /\ UNCHANGED << pc, cur, clock, watch_process, nspawned, returncode, relay,
                    buf, reqVars, startupError, dataVars, logVars >>

\* The worker starts writing a line to one of its output streams.
WorkerWrite(w, s) ==
    /\ Alive(w)
    /\ writing[w] = "none"
    /\ written[w]["stdout"] + written[w]["stderr"] < MaxLines
    /\ writing' = [writing EXCEPT ![w] = s]
    /\ UNCHANGED << pc, cur, clock, watch_process, nspawned, osVars, returncode,
                    relay, buf, reqVars, startupError, dataVars, logVars >>

\* The write completes once the pipe has room for the line.  The line is the
\* next one of its stream; its bytes are text in the parent's encoding (ok) or
\* not.
WorkerWriteDone(w) ==
    /\ Alive(w)
    /\ writing[w] # "none"
    /\ Len(buf[w][writing[w]]) < PipeCap
    /\ \E ok \in BOOLEAN :
        buf' = [buf EXCEPT ![w][writing[w]] =
                  Append(@, [n |-> written[w][writing[w]] + 1, ok |-> ok])]
    /\ written' = [written EXCEPT ![w][writing[w]] = @ + 1]
    /\ writing' = [writing EXCEPT ![w] = "none"]
    /\ UNCHANGED << pc, cur, clock, watch_process, nspawned, osVars, returncode,
                    relay, reqVars, startupError, dataVars, sent >>

\* ------------------------------------------------------------ output_reader
\* The name lifespan gives the thread of a stream.
Label(s) == IF s = "stdout" THEN "fluctuation" ELSE "fluctuation-err"

\* One turn of `for line in pipe: print(f"[{name}] {line.strip()}")`: a line
\* leaves the pipe and is printed under the thread's name.  The pipe is a text
\* stream (text=True) that decodes strictly: on bytes that are not text the
\* iteration raises UnicodeDecodeError, which nothing catches, and the thread
\* ends.
OutputReaderLine(w, s) ==
    /\ pc # "exited"
    /\ relay[w][s] = "reading"
    /\ Len(buf[w][s]) > 0
    /\ buf' = [buf EXCEPT ![w][s] = Tail(@)]
    /\ IF Head(buf[w][s]).ok
       THEN /\ sent' = [sent EXCEPT ![w][s] =
                          Append(@, [label |-> Label(s), n |-> Head(buf[w][s]).n])]
            /\ UNCHANGED relay
       ELSE /\ relay' = [relay EXCEPT ![w][s] = "crashed"]
            /\ UNCHANGED sent
    /\ UNCHANGED << pc, cur, clock, watch_process, nspawned, osVars, returncode,
                    writing, reqVars, startupError, dataVars, written >>

\* The loop ends at end-of-file: the pipe is empty and its writer is gone.
OutputReaderEOF(w, s) ==
    /\ pc # "exited"
    /\ relay[w][s] = "reading"
    /\ Len(buf[w][s]) = 0
    /\ ~Alive(w)
    /\ relay' = [relay EXCEPT ![w][s] = "done"]
    /\ UNCHANGED << pc, cur, clock, watch_process, nspawned, osVars, returncode,
                    buf, writing, reqVars, startupError, dataVars, logVars >>

\* ------------------------------------------------------------ specification
\* The supervisor: the event loop, the clients and the life and death of the
\* worker processes.  No step of it reads a pipe, so the workers' output is
\* left to PipeSpec below.
Next ==
    \/ LifespanStartup
    \/ LifespanStartupFail
    \/ LifespanShutdown
    \/ WaitTick
    \/ ShutdownGraceful
    \/ ShutdownForced
    \/ \E k \in Kinds : Arrive(k)
    \/ \E i \in Requests : GetWatchStatus(i)
    \/ \E i \in Requests : GetChangesByConcept(i)
    \/ \E i \in Requests : RestartBegin(i)
    \/ RestartGraceful
    \/ RestartForced
    \/ RestartSpawn
    \/ RestartSpawnFail
    \/ \E w \in Workers, c \in OwnExitCodes : WorkerExit(w, c)
    \/ \E w \in Workers, sig \in {SIGTERM, SIGKILL} : WorkerDiesBySignal(w, sig)

Spec == Init /\ [][Next]_vars

\* The supervisor under the event loop's scheduling: time passes in a
\* wait(timeout=5), and the lifespan half or the handler the loop is in runs
\* on to its next statement (Popen returns or raises).  Nothing makes a client
\* send a request, the server shut down, or a worker exit or die of a signal.
SupervisorFairness ==
    /\ WF_vars(WaitTick)
    /\ WF_vars(ShutdownGraceful)
    /\ WF_vars(ShutdownForced)
    /\ WF_vars(RestartGraceful)
    /\ WF_vars(RestartForced)
    /\ WF_vars(RestartSpawn \/ RestartSpawnFail)

FairSpec == Init /\ [][Next]_vars /\ SupervisorFairness

\* The workers' output: the supervisor driven by restart requests only (one
\* per process it may still create), the workers writing to their pipes and
\* the output_reader threads draining them.
PipeRestartArrives == nreq + 1 < PipeWorkers /\ Arrive("restart")
PipeRestartBegin(i) == nspawned < PipeWorkers /\ RestartBegin(i)

PipeNext ==
    \/ LifespanStartup
    \/ LifespanShutdown
    \/ WaitTick
    \/ ShutdownGraceful
    \/ ShutdownForced
    \/ PipeRestartArrives
    \/ \E i \in Requests : PipeRestartBegin(i)
    \/ RestartGraceful
    \/ RestartForced
    \/ RestartSpawn
    \/ \E w \in Workers, c \in OwnExitCodes : WorkerExit(w, c)
    \/ \E w \in Workers, sig \in {SIGTERM, SIGKILL} : WorkerDiesBySignal(w, sig)
    \/ \E w \in Workers, s \in Streams : WorkerWrite(w, s)
    \/ \E w \in Workers : WorkerWriteDone(w)
    \/ \E w \in Workers, s \in Streams : OutputReaderLine(w, s)
    \/ \E w \in Workers, s \in Streams : OutputReaderEOF(w, s)

\* What the scheduling guarantees.  The event loop keeps running the code it is
\* in: time passes in a wait, a handler or lifespan half that has begun runs to
\* its end, a request that waits is handled once the loop is free.  The OS
\* schedules the threads and the processes: a reader thread with a line to
\* read reads it, a write with room in the pipe completes, and a queued
\* SIGKILL is delivered.  Nothing makes a client send a request, the server
\* shut down, or a worker exit or honour SIGTERM.
LoopFairness ==
    /\ WF_vars(LifespanStartup)
    /\ WF_vars(WaitTick)
    /\ WF_vars(ShutdownGraceful)
    /\ WF_vars(ShutdownForced)
    /\ \A i \in Requests : WF_vars(PipeRestartBegin(i))
    /\ WF_vars(RestartGraceful)
    /\ WF_vars(RestartForced)
    /\ WF_vars(RestartSpawn)

PipeFairness ==
    /\ \A w \in Workers, s \in Streams : WF_vars(OutputReaderLine(w, s))
    /\ \A w \in Workers, s \in Streams : WF_vars(OutputReaderEOF(w, s))
    /\ \A w \in Workers : WF_vars(WorkerWriteDone(w))
    /\ \A w \in Workers : WF_vars(WorkerDiesBySignal(w, SIGKILL))

PipeSpec == Init /\ [][PipeNext]_vars /\ LoopFairness /\ PipeFairness

\* The data endpoints: the server serving data requests, sent one after the
\* other's answer, while the worker writes, rewrites and removes the data file
\* at any moment of their handling.
DataArrives(k) ==
    /\ \A i \in Requests : req[i].st \in {"none", "done"}
    /\ Arrive(k)

DataNext ==
    \/ LifespanStartup
    \/ \E k \in DataKinds : DataArrives(k)
    \/ \E i \in Requests : GetChangesCsv(i)
    \/ \E i \in Requests : FileResponseSend(i)
    \/ \E i \in Requests : GetChangesJson(i)
    \/ GetChangesJsonRead
    \/ \E w \in Workers : FileTruncate(w)
    \/ \E w \in Workers, l \in {Columns, LongRow} \cup DataRows : FileAppend(w, l)
    \/ \E w \in Workers : FileRemove(w)

DataSpec == Init /\ [][DataNext]_vars

\* ================================================================== claims
RestartDone(i) == req[i].st = "done" /\ req[i].kind = "restart"
Restarted(i) == RestartDone(i) /\ req[i].resp.status = "restarted"
StatusSeen == lastStatus # None
Seen == Val(lastStatus)
AliveWorkers == {w \in Workers : Alive(w)}

\* C1: in every reachable state at most one worker process spawned by this
\* supervisor is alive (Restart spawns only once the prior worker is gone).
C1_AtMostOneWorkerAlive == Cardinality(AliveWorkers) <= 1

\* C2: Restart requests are serialized (at most one is in flight and the loop
\* is inside it), no second worker overlaps, and every worker that is alive
\* is the one the handle slot refers to.
C2_RestartsSerialized ==
    /\ Cardinality({i \in Requests : req[i].st = "running"}) <= 1
    /\ \A i \in Requests : req[i].st = "running" =>
          /\ req[i].kind = "restart"
          /\ cur = i
          /\ pc \in {"restart_wait", "restart_spawn"}
    /\ Cardinality(AliveWorkers) <= 1
    /\ \A w \in Workers : Alive(w) => watch_process = Some(w)

\* C3: Stop sends the graceful request first and the forceful kill only to a
\* worker still alive after the whole grace period; and whenever Stop has
\* returned (Restart is about to spawn, or the shutdown path has let the
\* parent exit) the worker it was applied to has exited.
StopReturnsAfterExit ==
    /\ pc = "restart_spawn" /\ HasHandle => Exited(Handle)
    /\ pc = "exited" /\ HasHandle => Exited(Handle)
KillOnlyAfterGrace ==
    \A w \in Workers :
        sigkill'[w] /\ ~sigkill[w] =>
            Alive(w) /\ sigterm[w] /\ clock = GracePeriod
C3_GracefulThenForcedStop ==
    /\ [][KillOnlyAfterGrace]_vars
    /\ []StopReturnsAfterExit

\* C4: when the parent process has exited, no worker ever spawned by the
\* supervisor (at start-up or by any Restart) is still alive.
C4_NoWorkerOutlivesParent == pc = "exited" => AliveWorkers = {}

\* C5: a Status response is determined by the handle slot: not_running when it
\* is empty, running with the pid when the process in it has not exited,
\* stopped with its exit code when it has; and the Status step neither spawns,
\* signals nor replaces the worker.
StatusByTheSlot ==
    /\ Seen.resp.status \in {"not_running", "running", "stopped"}
    /\ Seen.resp.status = "not_running" <=> Seen.slot = None
    /\ Seen.slot # None /\ Seen.alive =>
          Seen.resp = [status |-> "running", pid |-> Val(Seen.slot)]
    /\ Seen.slot # None /\ ~Seen.alive =>
          /\ Exited(Val(Seen.slot))
          /\ Seen.resp = [status |-> "stopped",
                          return_code |-> exitcode[Val(Seen.slot)]]
StatusStep ==
    \E i \in Requests :
        req[i].kind = "status" /\ req[i].st = "pending" /\ req'[i].st = "done"
C5_StatusReflectsSlot ==
    /\ [](StatusSeen => StatusByTheSlot)
    /\ [][StatusStep => UNCHANGED << watch_process, nspawned, sigterm, sigkill >>]_vars

\* C5 witness: a Status call has found the worker in the slot exited by itself
\* with code 1 and has answered stopped with that code.
C5_Witness ==
    /\ StatusSeen
    /\ returncode[Val(Seen.slot)] = Some(1)
    /\ ~Seen.alive
    /\ Seen.resp = [status |-> "stopped", return_code |-> 1]

\* C6: while a Restart waits out the grace period for a worker that has not
\* exited, a waiting Status or dashboard request can be served.
C6_ServedDuringStop ==
    \A i \in Requests :
        /\ pc = "restart_wait"
        /\ Alive(Handle)
        /\ req[i].st = "pending"
        /\ req[i].kind \in {"status", "dashboard"}
        => ENABLED (GetWatchStatus(i) \/ GetChangesByConcept(i))

\* C7: a successful Restart answers with the pid of the worker it spawned; a
\* Status call that begins after that response reports on that worker; and
\* no Status call finds the slot empty once the server serves.
C7_RestartObservedInstalled ==
    /\ lastRestarted # 0 => lastRestarted = nspawned
    /\ \A i \in Requests : Restarted(i) =>
          /\ req[i].resp.pid \in 2..nspawned
          /\ \A j \in Requests : Restarted(j) /\ j # i =>
                req[j].resp.pid # req[i].resp.pid
    /\ pc = "idle" /\ lastRestarted # 0 => watch_process = Some(lastRestarted)
    /\ pc \in {"idle", "restart_wait", "restart_spawn"} => HasHandle
    /\ StatusSeen =>
          /\ Seen.slot # None
          /\ Seen.resp.status # "not_running"
          /\ Seen.after # 0 =>
                /\ Seen.slot = Some(Seen.after)
                /\ Seen.resp.status = "running" => Seen.resp.pid = Seen.after
                /\ Seen.resp.status = "stopped" =>
                      /\ Exited(Seen.after)
                      /\ Seen.resp.return_code = exitcode[Seen.after]

\* C7 witness: a Restart has answered restarted and a later Status call has
\* reported the new worker running.
C7_Witness ==
    /\ StatusSeen
    /\ \E i \in Requests : Restarted(i) /\ Seen.after = req[i].resp.pid
    /\ Seen.resp.status = "running"

\* C8: every worker in the Running state has an output relay bound to its
\* standard output and one bound to its standard error.
C8_RunningWorkerHasRelays ==
    \A w \in Workers : Alive(w) => \A s \in Streams : relay[w][s] = "reading"

\* C9: every write a running worker attempts on standard output or standard
\* error eventually completes (or ends with the worker).
C9_WritesComplete ==
    \A w \in Workers, s \in Streams :
        (Alive(w) /\ writing[w] = s) ~> (~Alive(w) \/ writing[w] # s)

\* C10: if spawning fails during start-up the server still serves: it has not
\* exited, no handle is recorded, and Status answers not_running.
C10_ServesAfterSpawnFailure ==
    startupError =>
        /\ pc # "exited"
        /\ watch_process = None
        /\ StatusSeen => Seen.resp.status = "not_running"

\* C11: a forceful kill that does not end the worker is fatal for the handle
\* and is surfaced: while a worker that was sent SIGKILL is still alive,
\* Restart has not gone on to put a new worker in the slot, and a Status call
\* made on such a handle answers an error state, not running or stopped.
C11_KillFailureSurfaced ==
    /\ \A w \in Workers : Alive(w) /\ sigkill[w] => watch_process = Some(w)
    /\ \A i \in Requests : \A w \in Workers :
         Restarted(i) /\ Alive(w) /\ sigkill[w] => req[i].resp.pid = w
    /\ StatusSeen /\ Seen.killed => Seen.resp.status = "error"

\* C17: Stop and Restart run to completion whatever the worker does.  The wait
\* of a Stop lasts at most one grace period, the step that sends SIGKILL ends
\* the Stop (one kill, no second wait), the Stop inside Restart always reaches
\* the spawn step and the Restart, whose request stays the one the loop is in
\* until then, its response, and the shutdown Stop always reaches the end of
\* lifespan.
Stopping == pc \in {"restart_wait", "shutdown_wait"}
KillSent == \E w \in Workers : sigkill'[w] /\ ~sigkill[w]
KillEndsStop == KillSent => Stopping /\ pc' \in {"restart_spawn", "exited"}
InRestart == pc \in {"restart_wait", "restart_spawn"}
RunningIsCurrent == \A i \in Requests : req[i].st = "running" <=> InRestart /\ cur = i
C17_StopAndRestartComplete ==
    /\ [](Stopping => clock <= GracePeriod)
    /\ []RunningIsCurrent
    /\ [][KillEndsStop]_vars
    /\ (pc = "restart_wait") ~> (pc = "restart_spawn")
    /\ (pc = "restart_spawn") ~> (pc = "idle")
    /\ (pc = "shutdown_wait") ~> (pc = "exited")
\* A Restart has answered {status: restarted} although the worker it stopped
\* ignored SIGTERM for the whole grace period and has not yet died of SIGKILL.
C17_Witness ==
    \E i \in Requests : \E w \in Workers :
        Restarted(i) /\ Alive(w) /\ sigkill[w] /\ req[i].resp.pid # w

\* C18: when the spawn step of Restart fails, the caller is not told
\* "restarted", no worker is running afterwards, and a Status call made while
\* that failed Restart is the latest one answers not_running.
C18_FailedSpawnLeavesNotRunning ==
    /\ \A i \in Requests : RestartDone(i) /\ ~Restarted(i) =>
                               req[i].resp.status = "error"
    /\ lastRestart = "error" /\ pc = "idle" => AliveWorkers = {}
    /\ StatusSeen /\ Seen.restart = "error" => Seen.resp.status = "not_running"

\* C19: the supervisor never respawns a worker on its own.  A worker is
\* spawned, and the slot changed, only by the start-up half of lifespan and by
\* the spawn step of a Restart; Status on a handle whose process has exited
\* answers stopped with that process's exit code; and the number of workers
\* ever spawned is the start-up spawn plus one per Restart whose spawn step
\* succeeded.
Started == IF pc = "startup" \/ startupError THEN 0 ELSE 1
SpawnOnlyOnRequest ==
    nspawned' # nspawned \/ watch_process' # watch_process =>
        /\ pc \in {"startup", "restart_spawn"}
        /\ nspawned' = nspawned + 1
        /\ watch_process' = Some(nspawned')
ExitedStaysStopped ==
    StatusSeen /\ Seen.slot # None /\ ~Seen.alive =>
        Seen.resp = [status |-> "stopped",
                     return_code |-> exitcode[Val(Seen.slot)]]
C19_NoRespawnOnItsOwn ==
    /\ [](nspawned = Started + Cardinality({i \in Requests : Restarted(i)}))
    /\ []ExitedStaysStopped
    /\ [][SpawnOnlyOnRequest]_vars
\* The worker of the start-up spawn ended by itself with code 1, Status
\* answered stopped, and no other worker was ever spawned.
C19_Witness ==
    /\ nspawned = 1
    /\ StatusSeen
    /\ Seen.resp = [status |-> "stopped", return_code |-> 1]
\* C19 as stated: one spawned worker per Restart that reached its spawn step,
\* whether Popen succeeded there or raised.
C19_OnePerSpawnStep ==
    nspawned = Started + Cardinality({i \in Requests : RestartDone(i)})

\* C20: the slot is never cleared once a handle is recorded.  From the first
\* successful spawn on, the slot refers to a spawned worker through every
\* step, and every Status call answers running or stopped, never not_running.
SlotKept == watch_process # None => watch_process' # None
C20_SlotNeverCleared ==
    /\ [](pc \notin {"startup"} /\ ~startupError => HasHandle)
    /\ [](HasHandle => Handle \in 1..nspawned)
    /\ [](StatusSeen => /\ Seen.slot # None
                        /\ Seen.resp.status \in {"running", "stopped"})
    /\ [][SlotKept]_vars
\* A Status call made after a Restart whose spawn failed still found a handle
\* in the slot: the one of the worker that Restart had stopped.
C20_Witness ==
    /\ StatusSeen
    /\ Seen.restart = "error"
    /\ Seen.slot # None
    /\ Seen.resp.status = "stopped"

\* C12: a data request answered while the data file is absent is answered
\* 404 by both endpoints, also when the worker removed the file while the
\* request was being handled: never 200 and never 500.
DataSeen == lastData # None
DataLast == Val(lastData)
C12_AbsentFileIsNotFound ==
    DataSeen /\ DataLast.src = None => DataLast.code = HTTP_NOT_FOUND

\* C13: every answer of a data endpoint comes from a read of the file made
\* for that request.  The step that answers a request records the file of that
\* moment; a 404 is given only when the file is absent, a 200 only when it is
\* there, and a 200 carries the bytes (CSV) or the records (JSON) of the file
\* as it is then, whatever earlier requests were answered.
DataAnswerStep(i) ==
    /\ req[i].st # "done"
    /\ req'[i].st = "done"
    /\ req'[i].kind \in DataKinds
AnswersFromFile ==
    \A i \in Requests : DataAnswerStep(i) =>
        /\ lastData' # None
        /\ Val(lastData').src = file
        /\ Val(lastData').kind = req'[i].kind
ReflectsFile ==
    DataSeen =>
        /\ DataLast.code = HTTP_NOT_FOUND => DataLast.src = None
        /\ DataLast.code = HTTP_OK => DataLast.src # None
        /\ DataLast.code = HTTP_OK /\ DataLast.kind = "csv" =>
               DataLast.bytes = Val(DataLast.src)
        /\ DataLast.code = HTTP_OK /\ DataLast.kind = "json" =>
               \E upcast \in BOOLEAN :
                   DataLast.records = ToDict(Val(DataLast.src), upcast)
C13_FreshRead == []ReflectsFile /\ [][AnswersFromFile]_vars
\* The first CSV request was answered 404, and the CSV request after it 200
\* with the bytes of the file the worker wrote in between.
C13_Witness ==
    /\ DataSeen
    /\ DataLast.afterNotFound
    /\ DataLast.kind = "csv"
    /\ DataLast.code = HTTP_OK
    /\ DataLast.bytes = << Columns, << "A", "5" >> >>
    /\ file = Some(DataLast.bytes)

\* C14: for a file that is a table, the JSON endpoint answers 200 with one
\* record per data row in file order and one key per column in each record;
\* an empty cell gives null for its key, a non-empty cell a non-null value
\* with the cell's text (5 and 5.0 count as the same value).
C14_JsonNulls ==
    DataSeen /\ DataLast.kind = "json" /\ DataLast.src # None
             /\ IsTable(Val(DataLast.src)) =>
        /\ DataLast.code = HTTP_OK
        /\ Len(DataLast.records) = NRows(Val(DataLast.src))
        /\ \A r \in 1..NRows(Val(DataLast.src)) :
             /\ Len(DataLast.records[r]) = Len(Columns)
             /\ \A j \in 1..Len(Columns) :
                  /\ DataLast.records[r][j].key = Columns[j]
                  /\ IF Field(Val(DataLast.src), r, j) = ""
                     THEN DataLast.records[r][j].t = "null"
                     ELSE /\ DataLast.records[r][j].t \in {"int", "float", "str"}
                          /\ DataLast.records[r][j].v = Field(Val(DataLast.src), r, j)

\* C15: a failure on one line does not end the relay: no output_reader thread
\* ends on a line it cannot decode, so the lines after it are still read.
C15_RelaySurvivesMalformedLine ==
    \A w \in Workers, s \in Streams : relay[w][s] # "crashed"

\* C16: a relay forwards every complete line of its stream exactly once, in
\* the order written and under its stream's own label: what it has printed is
\* lines 1, 2, ... of the stream, every line written is either printed or
\* still in the pipe, and the relay ends only at end-of-file, with every line
\* written printed.
OwnLabel(s, l) == \A s2 \in Streams : (l = Label(s2)) <=> (s2 = s)
C16_RelayForwardsAll ==
    \A w \in Workers, s \in Streams :
        relay[w][s] # "none" =>
            /\ \A k \in 1..Len(sent[w][s]) :
                 /\ sent[w][s][k].n = k
                 /\ OwnLabel(s, sent[w][s][k].label)
            /\ Len(sent[w][s]) + Len(buf[w][s]) = written[w][s]
            /\ relay[w][s] \in {"reading", "done"}
            /\ relay[w][s] = "done" => Len(sent[w][s]) = written[w][s]

====
